---- MODULE Spec2Model ----
(***************************************************************************)
(* nfs-gaze: the mountstats parser (parseMountstats, parseEvents) and the  *)
(* delta engine (calculateDelta), with the code that consumes them.        *)
(*                                                                         *)
(* Text.  A Go string is modelled as a sequence of symbols.  A symbol is   *)
(* an indivisible run of characters: every literal the code searches for   *)
(* ("device", "nfs", "age", ":", " ", "on", "RPC", ...) is a symbol or a   *)
(* sequence of symbols of its own, decimal digits are one symbol each, and *)
(* no other symbol of the alphabet contains one of those literals.  The    *)
(* string functions (TrimSpace, HasPrefix, Contains, Fields, SplitN,       *)
(* ParseInt) are computed on these sequences as the Go library computes    *)
(* them on bytes.                                                          *)
(*                                                                         *)
(* Numbers.  int64 counters are integers; the inputs are the non-negative  *)
(* cumulative counters of the kernel, far below 2^63, so no subtraction    *)
(* wraps.  A float64 is an exact rational [k |-> "fin", n, d], or the      *)
(* IEEE results of a division by zero: [k |-> "inf"] and [k |-> "nan"].    *)
(***************************************************************************)
EXTENDS Integers, Sequences, FiniteSets, TLC

VARIABLES
    \* ---- delta engine harness (calculateDelta as a pure function)
    previousOp,     \* *NFSOperation or Nil
    currentOp,      \* *NFSOperation or Nil
    durationSec,    \* float64
    delta,          \* result of the call (*DeltaStats or Nil)
    dpc,            \* "input" before the call, "done" after it
    \* ---- display harness (one call of a display routine); it shares dpc,
    \* "display" before the call and "displayed" after it
    statsArg,       \* the []*DeltaStats handed to the routine as "stats"
    printed,        \* what the call printed, or Nil before it
    \* ---- parseMountstats (one call)
    rev,            \* which revision of the device-line code is built
    stream,         \* the lines scanner.Scan() has delivered so far
    mounts,         \* map[string]*NFSMount being built
    currentMount,   \* key of the record currentMount points to, or NilSeq
    logged,         \* the fields for which log.Printf reported an error
    perr,           \* the error parseMountstats returns: "none", "open" or "scan"
    ppc,            \* "idle" | "open" | "scan" | "returned" | "panic"
    earlier,        \* what the call before this one read and returned, or Nil
    \* ---- main: the flags, the snapshots and the monitoring loop
    flags,          \* the values initFlags returns
    opsFilter,      \* map[string]bool of parseOperationsFilter, nil for no filter
    previousMounts, \* the snapshot retained from the last successful parse
    monitorMounts,  \* []string of getMountsToMonitor
    iteration,      \* the tick counter of monitoringLoop
    built,          \* the DeltaStats records built by the step just taken
    shown,          \* the display and log calls of the step just taken
    merr,           \* "err != nil" of the parseMountstats call made last
    previousTick,   \* the tick whose parse previousMounts holds, 0 for main's
    elapsed,        \* seconds between the two parses the last tick compared
    duration,       \* "duration" of the last tick that got past its parse
    sigChan,        \* the signals buffered in sigChan (capacity 1)
    currentMounts,  \* the snapshot parsed by the last tick, empty when it failed
    mpc             \* "idle" | "parse" | "select" | "summary" | "ticker" | "loop"
                    \* | "returned" | "exit1" | "panic"

deltaVars == <<previousOp, currentOp, durationSec, delta, dpc, statsArg, printed>>
parseVars == <<rev, stream, mounts, currentMount, logged, perr, ppc, earlier>>
mainVars == <<flags, opsFilter, previousMounts, monitorMounts, iteration, built,
              shown, merr, previousTick, elapsed, duration, sigChan,
              currentMounts, mpc>>
vars == <<previousOp, currentOp, durationSec, delta, dpc, statsArg, printed,
          rev, stream, mounts, currentMount, logged, perr, ppc, earlier,
          flags, opsFilter, previousMounts, monitorMounts, iteration, built,
          shown, merr, previousTick, elapsed, duration, sigChan,
              currentMounts, mpc>>

\* a nil pointer to a struct
Nil == [nil |-> TRUE]
\* a nil pointer where the pointee is modelled as a sequence (the key of the
\* current mount, the 27 event counters)
NilSeq == <<>>

(***************************************************************************)
(* Bounds                                                                  *)
(***************************************************************************)
MaxOpsStep == 2     \* Ops counters are 10*k, k in 0..MaxOpsStep
MaxScale == 2       \* the other counters are multiples 0..MaxScale of a base
MaxLines == 3       \* the lines of the mountstats file of one parseMountstats call
MaxTicks == 2       \* the ticker ticks monitoringLoop receives
MaxCallLines == 2   \* the lines of the file in each of two successive calls
MaxStats == 4       \* the entries of the list handed to a display routine

(***************************************************************************)
(* float64                                                                 *)
(***************************************************************************)
RECURSIVE GCD(_, _)
GCD(a, b) == IF b = 0 THEN a ELSE GCD(b, a % b)

Abs(x) == IF x < 0 THEN -x ELSE x

FNaN == [k |-> "nan", n |-> 0, d |-> 1]
FInf(sign) == [k |-> "inf", n |-> sign, d |-> 1]

\* the rational n/d (d # 0) in lowest terms with a positive denominator
Fin(n, d) ==
    LET g == GCD(Abs(n), Abs(d))
        s == IF d < 0 THEN -1 ELSE 1
    IN  [k |-> "fin", n |-> (s * n) \div g, d |-> (s * d) \div g]

float64(i) == [k |-> "fin", n |-> i, d |-> 1]
FZero == float64(0)

Sign(x) == IF x < 0 THEN -1 ELSE 1

\* Go's float64 division: x / 0 is +Inf, -Inf or NaN, never a panic
FDiv(a, b) ==
    IF a.k = "nan" \/ b.k = "nan" THEN FNaN
    ELSE IF a.k = "inf" THEN (IF b.k = "inf" THEN FNaN ELSE FInf(a.n * Sign(b.n)))
    ELSE IF b.k = "inf" THEN FZero
    ELSE IF b.n = 0 THEN (IF a.n = 0 THEN FNaN ELSE FInf(Sign(a.n)))
    ELSE Fin(a.n * b.d, a.d * b.n)

IsFinite(f) == f.k = "fin"

(***************************************************************************)
(* strings, strconv                                                        *)
(***************************************************************************)
Whitespace == {" ", "\t"}
Digit == {"0", "1", "2", "3", "4", "5", "6", "7", "8", "9"}

RECURSIVE TrimLeft(_)
TrimLeft(s) ==
    IF s # <<>> /\ Head(s) \in Whitespace THEN TrimLeft(Tail(s)) ELSE s

RECURSIVE TrimRight(_)
TrimRight(s) ==
    IF s # <<>> /\ s[Len(s)] \in Whitespace
    THEN TrimRight(SubSeq(s, 1, Len(s) - 1)) ELSE s

\* strings.TrimSpace
TrimSpace(s) == TrimRight(TrimLeft(s))

\* strings.HasPrefix
HasPrefix(s, prefix) ==
    Len(s) >= Len(prefix) /\ SubSeq(s, 1, Len(prefix)) = prefix

\* strings.Index, 1-based, 0 when substr does not occur in s
Index(s, substr) ==
    LET hits == {i \in 1..(Len(s) - Len(substr) + 1) :
                    SubSeq(s, i, i + Len(substr) - 1) = substr}
    IN  IF hits = {} THEN 0 ELSE CHOOSE i \in hits : \A j \in hits : i <= j

\* strings.Contains
Contains(s, substr) == Index(s, substr) # 0

\* strings.SplitN(s, sep, 2)
SplitN2(s, sep) ==
    LET i == Index(s, sep)
    IN  IF i = 0 THEN <<s>>
        ELSE <<SubSeq(s, 1, i - 1), SubSeq(s, i + Len(sep), Len(s))>>

\* the first field of s (s does not start with white space) and what follows it
RECURSIVE FieldEnd(_, _)
FieldEnd(s, i) ==
    IF i <= Len(s) /\ s[i] \notin Whitespace THEN FieldEnd(s, i + 1) ELSE i

\* strings.Fields
RECURSIVE Fields(_)
Fields(s) ==
    LET t == TrimLeft(s)
    IN  IF t = <<>> THEN <<>>
        ELSE LET e == FieldEnd(t, 1)
             IN  <<SubSeq(t, 1, e - 1)>> \o Fields(SubSeq(t, e, Len(t)))

DigitValue(c) ==
    CASE c = "0" -> 0 [] c = "1" -> 1 [] c = "2" -> 2 [] c = "3" -> 3 [] c = "4" -> 4
      [] c = "5" -> 5 [] c = "6" -> 6 [] c = "7" -> 7 [] c = "8" -> 8 [] c = "9" -> 9

RECURSIVE DigitsValue(_, _)
DigitsValue(s, acc) ==
    IF s = <<>> THEN acc ELSE DigitsValue(Tail(s), 10 * acc + DigitValue(Head(s)))

\* strconv.ParseInt(s, 10, 64): an optional sign and one or more decimal
\* digits; a syntax error gives the value 0 and an error.  (The tokens of the
\* model are short: the range error of a number beyond 63 bits is out of
\* reach.)
ParseInt(s) ==
    LET signed == s # <<>> /\ Head(s) \in {"+", "-"}
        digits == IF signed THEN Tail(s) ELSE s
    IN  IF digits = <<>> \/ \E i \in 1..Len(digits) : digits[i] \notin Digit
        THEN [v |-> 0, err |-> TRUE]
        ELSE [v |-> (IF signed /\ Head(s) = "-" THEN -1 ELSE 1) * DigitsValue(digits, 0),
              err |-> FALSE]

(***************************************************************************)
(* Types (types.go)                                                        *)
(***************************************************************************)
NFSOperation(name, ops, ntrans, timeouts, sent, recv, queue, rtt, exec, errors) ==
    [Name |-> name, Ops |-> ops, Ntrans |-> ntrans, Timeouts |-> timeouts,
     BytesSent |-> sent, BytesRecv |-> recv, QueueTime |-> queue, RTT |-> rtt,
     ExecuteTime |-> exec, Errors |-> errors]

\* &DeltaStats{}: every field at its zero value
ZeroDeltaStats ==
    [Operation |-> <<>>, DeltaOps |-> 0, DeltaBytes |-> 0, DeltaSent |-> 0,
     DeltaRecv |-> 0, DeltaRTT |-> 0, DeltaExec |-> 0, DeltaQueue |-> 0,
     DeltaErrors |-> 0, DeltaRetrans |-> 0,
     AvgRTT |-> FZero, AvgExec |-> FZero, AvgQueue |-> FZero,
     KBPerOp |-> FZero, KBPerSec |-> FZero, IOPS |-> FZero]

(***************************************************************************)
(* calculateDelta (stats.go)                                               *)
(***************************************************************************)
\* the struct literal of stats.go:296-308 without IOPS: the counter differences
deltaCountersNtrans(prevOp, curOp) ==
    [ZeroDeltaStats EXCEPT
       !.Operation = curOp.Name,
       !.DeltaOps = curOp.Ops - prevOp.Ops,
       !.DeltaSent = curOp.BytesSent - prevOp.BytesSent,
       !.DeltaRecv = curOp.BytesRecv - prevOp.BytesRecv,
       !.DeltaBytes = (curOp.BytesSent - prevOp.BytesSent)
                      + (curOp.BytesRecv - prevOp.BytesRecv),
       !.DeltaRTT = curOp.RTT - prevOp.RTT,
       !.DeltaExec = curOp.ExecuteTime - prevOp.ExecuteTime,
       !.DeltaQueue = curOp.QueueTime - prevOp.QueueTime,
       !.DeltaErrors = curOp.Errors - prevOp.Errors,
       !.DeltaRetrans = curOp.Ntrans - prevOp.Ntrans]

deltaCounters(prevOp, curOp) ==
    [ZeroDeltaStats EXCEPT
       !.Operation = curOp.Name,
       !.DeltaOps = curOp.Ops - prevOp.Ops,
       !.DeltaSent = curOp.BytesSent - prevOp.BytesSent,
       !.DeltaRecv = curOp.BytesRecv - prevOp.BytesRecv,
       !.DeltaBytes = (curOp.BytesSent - prevOp.BytesSent)
                      + (curOp.BytesRecv - prevOp.BytesRecv),
       !.DeltaRTT = curOp.RTT - prevOp.RTT,
       !.DeltaExec = curOp.ExecuteTime - prevOp.ExecuteTime,
       !.DeltaQueue = curOp.QueueTime - prevOp.QueueTime,
       !.DeltaErrors = curOp.Errors - prevOp.Errors,
       !.DeltaRetrans = curOp.Timeouts - prevOp.Timeouts]

\* IOPS (stats.go:307) and the averages (stats.go:310-315) of a delta d1
deltaRatesPerOp(d1, deltaOps, dur) ==
    [d1 EXCEPT
       !.IOPS = FDiv(float64(deltaOps), dur),
       !.AvgRTT = FDiv(float64(d1.DeltaRTT), float64(deltaOps)),
       !.AvgExec = FDiv(float64(d1.DeltaExec), float64(deltaOps)),
       !.AvgQueue = FDiv(float64(d1.DeltaQueue), float64(deltaOps)),
       !.KBPerOp = FDiv(FDiv(float64(d1.DeltaBytes), float64(deltaOps)), float64(1024)),
       !.KBPerSec = FDiv(FDiv(float64(d1.DeltaBytes), float64(deltaOps)), float64(1024))]

deltaRates(d1, deltaOps, dur) ==
    [d1 EXCEPT
       !.IOPS = FDiv(float64(deltaOps), dur),
       !.AvgRTT = FDiv(float64(d1.DeltaRTT), float64(deltaOps)),
       !.AvgExec = FDiv(float64(d1.DeltaExec), float64(deltaOps)),
       !.AvgQueue = FDiv(float64(d1.DeltaQueue), float64(deltaOps)),
       !.KBPerOp = FDiv(FDiv(float64(d1.DeltaBytes), float64(deltaOps)), float64(1024)),
       !.KBPerSec = FDiv(FDiv(float64(d1.DeltaBytes), dur), float64(1024))]

\* calculateDelta with the guard "deltaOps < 0" in place of "deltaOps <= 0"
calculateDeltaStrictGuard(prevOp, curOp, dur) ==
    IF prevOp = Nil \/ curOp = Nil THEN Nil
    ELSE
    LET deltaOps == curOp.Ops - prevOp.Ops IN
    IF deltaOps < 0
    THEN [ZeroDeltaStats EXCEPT !.Operation = curOp.Name, !.DeltaOps = 0]
    ELSE deltaRates(deltaCounters(prevOp, curOp), deltaOps, dur)

\* calculateDelta that reads a nil record as a record of zero counters
calculateDeltaNilAsZero(prevOp, curOp, dur) ==
    LET zeroOp == NFSOperation(<<>>, 0, 0, 0, 0, 0, 0, 0, 0, 0)
        p == IF prevOp = Nil THEN zeroOp ELSE prevOp
        c == IF curOp = Nil THEN zeroOp ELSE curOp
        deltaOps == c.Ops - p.Ops
    IN  IF deltaOps <= 0
        THEN [ZeroDeltaStats EXCEPT !.Operation = c.Name, !.DeltaOps = 0]
        ELSE deltaRates(deltaCounters(p, c), deltaOps, dur)

calculateDelta(prevOp, curOp, dur) ==
    IF prevOp = Nil \/ curOp = Nil THEN Nil
    ELSE
    LET deltaOps == curOp.Ops - prevOp.Ops IN
    IF deltaOps <= 0
    THEN [ZeroDeltaStats EXCEPT !.Operation = curOp.Name, !.DeltaOps = 0]
    ELSE deltaRates(deltaCounters(prevOp, curOp), deltaOps, dur)

(***************************************************************************)
(* Go maps                                                                 *)
(***************************************************************************)
EmptyMap == [k \in {} |-> Nil]

MapPut(m, key, val) ==
    [k \in (DOMAIN m) \cup {key} |-> IF k = key THEN val ELSE m[k]]

\* m[key] of a map of pointers: nil when the key is missing
MapGet(m, key) == IF key \in DOMAIN m THEN m[key] ELSE Nil

(***************************************************************************)
(* parseEvents (stats.go)                                                  *)
(***************************************************************************)
NumEvents == 27         \* the fields of NFSEvents, in the order of the line
MinEventsParts == 27    \* "if len(parts) < 27"

\* &NFSEvents{}
ZeroEvents == [i \in 1..NumEvents |-> 0]

\* parseEvents with the pNFS counters optional: "if len(parts) < 25"
parseEventsMin25(parts) ==
    IF Len(parts) < 25
    THEN [events |-> ZeroEvents, err |-> TRUE]
    ELSE LET r == [i \in 1..NumEvents |->
                     IF i <= Len(parts) THEN ParseInt(parts[i])
                     ELSE [v |-> 0, err |-> FALSE]]
         IN  IF \E i \in 1..NumEvents : r[i].err
             THEN [events |-> NilSeq, err |-> TRUE]
             ELSE [events |-> [i \in 1..NumEvents |-> r[i].v], err |-> FALSE]

\* parts[i-1] is parsed when it exists (positions 25 and 26 are guarded by
\* len(parts) > 25, len(parts) > 26); the first failure returns nil
parseEvents(parts) ==
    IF Len(parts) < MinEventsParts
    THEN [events |-> ZeroEvents, err |-> TRUE]
    ELSE LET r == [i \in 1..NumEvents |->
                     IF i <= Len(parts) THEN ParseInt(parts[i])
                     ELSE [v |-> 0, err |-> FALSE]]
         IN  IF \E i \in 1..NumEvents : r[i].err
             THEN [events |-> NilSeq, err |-> TRUE]
             ELSE [events |-> [i \in 1..NumEvents |-> r[i].v], err |-> FALSE]

(***************************************************************************)
(* parseMountstats (stats.go, and the revision of it that splits the       *)
(* device line on " on "): the body of the scanner loop.  The state of one *)
(* call is st = [mounts, currentMount, logged, panicked].                  *)
(***************************************************************************)
MinDeviceFields == 8    \* "if len(parts) >= 8"
MinBytesFields == 5     \* "if len(parts) >= 5"
MinOpFields == 9        \* "if len(stats) >= 9"

\* newMount without the default "/" of the export
newMountNoDefault(st, serverExport, mountPoint) ==
    LET serverParts == SplitN2(serverExport, <<":">>)
        server == serverParts[1]
        export == IF Len(serverParts) > 1 THEN serverParts[2] ELSE <<>>
        m == [Device |-> serverExport, MountPoint |-> mountPoint,
              Server |-> server, Export |-> export, Age |-> 0,
              Operations |-> EmptyMap, Events |-> ZeroEvents,
              BytesRead |-> 0, BytesWrite |-> 0]
    IN  [st EXCEPT !.mounts = MapPut(st.mounts, mountPoint, m),
                   !.currentMount = mountPoint]

\* the body of "if len(parts) >= 8": a new record becomes the current mount
newMount(st, serverExport, mountPoint) ==
    LET serverParts == SplitN2(serverExport, <<":">>)
        server == serverParts[1]
        export == IF Len(serverParts) > 1 THEN serverParts[2] ELSE <<"/">>
        m == [Device |-> serverExport, MountPoint |-> mountPoint,
              Server |-> server, Export |-> export, Age |-> 0,
              Operations |-> EmptyMap, Events |-> ZeroEvents,
              BytesRead |-> 0, BytesWrite |-> 0]
    IN  [st EXCEPT !.mounts = MapPut(st.mounts, mountPoint, m),
                   !.currentMount = mountPoint]

\* stats.go: fixed positions of the whitespace-separated fields
deviceLineFixed(st, line) ==
    LET parts == Fields(line)
    IN  IF Len(parts) >= MinDeviceFields
        THEN newMount(st, parts[2], parts[5])
        ELSE st

\* the other revision: split on the first " on "; a line without it is skipped
deviceLineOn(st, line) ==
    LET lineParts == SplitN2(line, <<" ", "on", " ">>)
    IN  IF Len(lineParts) # 2 THEN st
        ELSE LET deviceInfo == Fields(lineParts[1])
                 mountInfo == Fields(lineParts[2])
             IN  IF Len(deviceInfo) >= 2 /\ Len(mountInfo) >= 1
                 THEN newMount(st, deviceInfo[2], mountInfo[1])
                 ELSE st

\* an update of the record currentMount points to
SetMount(st, field, val) ==
    [st EXCEPT !.mounts[st.currentMount][field] = val]

Log(st, cond, what) ==
    IF cond THEN [st EXCEPT !.logged = @ \cup {what}] ELSE st

ageLine(st, line) ==
    LET parts == Fields(line)
    IN  IF Len(parts) >= 2
        THEN LET r == ParseInt(parts[2])
             IN  Log(SetMount(st, "Age", r.v), r.err, "age")
        ELSE st

eventsLine(st, line) ==
    LET parts == Fields(line)
    IN  IF Len(parts) > 1
        THEN LET r == parseEvents(Tail(parts))
             IN  Log(SetMount(st, "Events", r.events), r.err, "events")
        ELSE st

\* parts[5] is read under the guard len(parts) >= 5: with exactly five fields
\* the index is out of range and the Go runtime panics
bytesLine(st, line) ==
    LET parts == Fields(line)
    IN  IF Len(parts) >= MinBytesFields
        THEN LET rd == ParseInt(parts[2])
                 st1 == Log(SetMount(st, "BytesRead", rd.v), rd.err, "bytes read")
             IN  IF Len(parts) < 6
                 THEN [st1 EXCEPT !.panicked = TRUE]
                 ELSE LET wr == ParseInt(parts[6])
                      IN  Log(SetMount(st1, "BytesWrite", wr.v), wr.err, "bytes write")
        ELSE st

\* the field of NFSOperation that stats[i-1] is parsed into
OpFieldAt == <<"Ops", "Ntrans", "Timeouts", "BytesSent", "BytesRecv",
               "QueueTime", "RTT", "ExecuteTime", "Errors">>

\* storeOperation that keeps the record a name already has
storeOperationFirstWins(st, opName, stats) ==
    LET r == [i \in 1..9 |-> IF i <= Len(stats) THEN ParseInt(stats[i])
                                                 ELSE [v |-> 0, err |-> FALSE]]
        val(f) == r[CHOOSE i \in 1..9 : OpFieldAt[i] = f].v
        op == NFSOperation(opName, val("Ops"), val("Ntrans"), val("Timeouts"),
                           val("BytesSent"), val("BytesRecv"), val("QueueTime"),
                           val("RTT"), val("ExecuteTime"), val("Errors"))
        ops == st.mounts[st.currentMount].Operations
        st1 == IF opName \in DOMAIN ops THEN st
               ELSE SetMount(st, "Operations", MapPut(ops, opName, op))
    IN  [st1 EXCEPT !.logged = @ \cup {OpFieldAt[i] : i \in {j \in 1..9 : r[j].err}}]

\* the body of "if len(stats) >= 9": every field is parsed, a failure is
\* logged and leaves 0 in the field, and the record is stored
storeOperation(st, opName, stats) ==
    LET r == [i \in 1..9 |-> IF i <= Len(stats) THEN ParseInt(stats[i])
                                                 ELSE [v |-> 0, err |-> FALSE]]
        val(f) == r[CHOOSE i \in 1..9 : OpFieldAt[i] = f].v
        op == NFSOperation(opName, val("Ops"), val("Ntrans"), val("Timeouts"),
                           val("BytesSent"), val("BytesRecv"), val("QueueTime"),
                           val("RTT"), val("ExecuteTime"), val("Errors"))
        ops == st.mounts[st.currentMount].Operations
        st1 == SetMount(st, "Operations", MapPut(ops, opName, op))
    IN  [st1 EXCEPT !.logged = @ \cup {OpFieldAt[i] : i \in {j \in 1..9 : r[j].err}}]

\* operationLine with the guard "len(stats) >= 8"
operationLineMin8(st, line) ==
    LET opParts == SplitN2(line, <<":">>)
    IN  IF Len(opParts) = 2
        THEN LET opName == TrimSpace(opParts[1])
                 stats == Fields(opParts[2])
             IN  IF Len(stats) >= 8
                 THEN storeOperation(st, opName, stats)
                 ELSE st
        ELSE st

operationLine(st, line) ==
    LET opParts == SplitN2(line, <<":">>)
    IN  IF Len(opParts) = 2
        THEN LET opName == TrimSpace(opParts[1])
                 stats == Fields(opParts[2])
             IN  IF Len(stats) >= MinOpFields
                 THEN storeOperation(st, opName, stats)
                 ELSE st
        ELSE st

ExcludedPrefixes == {<<"RPC">>, <<"xprt">>, <<"per-op">>, <<"opts">>, <<"caps">>, <<"sec">>}

\* the "else if currentMount != nil" branch
statLine(st, line) ==
    IF HasPrefix(line, <<"age", ":">>) THEN ageLine(st, line)
    ELSE IF HasPrefix(line, <<"events", ":">>) THEN eventsLine(st, line)
    ELSE IF HasPrefix(line, <<"bytes", ":">>) THEN bytesLine(st, line)
    ELSE IF Contains(line, <<":">>) /\ \A x \in ExcludedPrefixes : ~HasPrefix(line, x)
         THEN operationLine(st, line)
    ELSE st

Revisions == {"fixed", "on"}

\* a call whose map and current mount are package variables: it starts its
\* loop in the state the call before it left
freshCallStatic ==
    [mounts |-> mounts, currentMount |-> currentMount,
     logged |-> logged, panicked |-> FALSE]

\* "mounts := make(map[string]*NFSMount)" and "var currentMount *NFSMount":
\* the state a call starts its loop in
freshCall ==
    [mounts |-> EmptyMap, currentMount |-> NilSeq, logged |-> {}, panicked |-> FALSE]

\* parseLine that opens a mount of its own for a statistics line read before
\* any device line
parseLineImplicitMount(r, st, text) ==
    LET line == TrimSpace(text)
    IN  IF HasPrefix(line, <<"device">>) /\ Contains(line, <<"nfs">>)
        THEN (IF r = "fixed" THEN deviceLineFixed(st, line) ELSE deviceLineOn(st, line))
        ELSE IF st.currentMount # NilSeq THEN statLine(st, line)
        ELSE statLine(newMount(st, <<>>, <<>>), line)

\* one iteration of "for scanner.Scan()"
parseLine(r, st, text) ==
    LET line == TrimSpace(text)
    IN  IF HasPrefix(line, <<"device">>) /\ Contains(line, <<"nfs">>)
        THEN (IF r = "fixed" THEN deviceLineFixed(st, line) ELSE deviceLineOn(st, line))
        ELSE IF st.currentMount # NilSeq THEN statLine(st, line)
        ELSE st

(***************************************************************************)
(* Harness of the delta engine: the inputs are drawn in InitDelta, the     *)
(* action applies calculateDelta to them.                                  *)
(***************************************************************************)
OpNames == {<<"READ">>, <<"WRITE">>}

OpInputs ==
    { NFSOperation(nm, 10 * o, 7 * sb, 600 * st, 100 * sb, 200 * sb,
                   500 * st, 300 * st, 400 * st, 700 * sb) :
        nm \in OpNames, o \in 0..MaxOpsStep, sb \in 0..MaxScale, st \in 0..MaxScale }

Durations == {float64(0), Fin(1, 2), float64(1), float64(10)}

\* flag.String, flag.Duration, flag.Int and flag.Bool defaults of initFlags
DefaultFlags ==
    [mountPoint |-> <<>>, operations |-> <<>>, interval |-> 1000, count |-> 0,
     showAttr |-> FALSE, nfsiostatMode |-> FALSE, clearScreen |-> FALSE]

\* "var opsFilter map[string]bool": the nil map
NilFilter == [nil |-> TRUE, keys |-> {}]

MainIdle ==
    /\ flags = DefaultFlags
    /\ opsFilter = NilFilter
    /\ previousMounts = EmptyMap
    /\ monitorMounts = <<>>
    /\ iteration = 0
    /\ built = {}
    /\ shown = <<>>
    /\ merr = FALSE
    /\ previousTick = 0
    /\ elapsed = FZero
    /\ duration = FZero
    /\ sigChan = 0
    /\ currentMounts = EmptyMap
    /\ mpc = "idle"

ParseIdle ==
    /\ rev = "fixed"
    /\ stream = <<>>
    /\ mounts = EmptyMap
    /\ currentMount = NilSeq
    /\ logged = {}
    /\ perr = "none"
    /\ ppc = "idle"
    /\ earlier = Nil

InitDelta ==
    /\ previousOp \in OpInputs \cup {Nil}
    /\ currentOp \in OpInputs \cup {Nil}
    /\ durationSec \in Durations
    /\ delta = Nil
    /\ dpc = "input"
    /\ statsArg = <<>>
    /\ printed = Nil
    /\ ParseIdle
    /\ MainIdle

CalculateDelta ==
    /\ dpc = "input"
    /\ delta' = calculateDelta(previousOp, currentOp, durationSec)
    /\ dpc' = "done"
    /\ UNCHANGED <<previousOp, currentOp, durationSec, statsArg, printed>>
    /\ UNCHANGED parseVars
    /\ UNCHANGED mainVars

NextDelta == CalculateDelta

SpecDelta == InitDelta /\ [][NextDelta]_vars

(***************************************************************************)
(* Properties of calculateDelta, checked under SpecDelta                   *)
(***************************************************************************)
BothPresent == previousOp # Nil /\ currentOp # Nil

\* C1: when current.ops <= previous.ops, calculateDelta returns a record
\* (not nil) that carries current's name, DeltaOps = 0 and every other
\* delta, average and rate field at its zero value, for every duration
\* (also duration 0: no division is performed).
C1_NoActivityIsZeroRecord ==
    (dpc = "done" /\ BothPresent /\ currentOp.Ops <= previousOp.Ops)
        => /\ delta # Nil
           /\ delta.Operation = currentOp.Name
           /\ delta.DeltaOps = 0
           /\ \A f \in {"DeltaBytes", "DeltaSent", "DeltaRecv", "DeltaRTT", "DeltaExec",
                        "DeltaQueue", "DeltaErrors", "DeltaRetrans"} : delta[f] = 0
           /\ \A f \in {"AvgRTT", "AvgExec", "AvgQueue", "KBPerOp", "KBPerSec", "IOPS"} :
                  delta[f] = FZero

\* a counter reset (negative difference) with other counters that moved and a
\* zero duration has been turned into the zero record
C1_Witness ==
    /\ dpc = "done" /\ BothPresent
    /\ currentOp.Ops < previousOp.Ops
    /\ currentOp.BytesSent # previousOp.BytesSent
    /\ durationSec = float64(0)
    /\ delta # Nil /\ delta.DeltaOps = 0

\* C2: calculateDelta returns nil whenever the previous or the current record
\* is nil, for every duration; an operation present only in the newer sample
\* gives no delta.
C2_AbsentInputAbsentResult ==
    (dpc = "done" /\ (previousOp = Nil \/ currentOp = Nil)) => delta = Nil

\* only the newer sample has the operation, with a positive count
C2_Witness ==
    /\ dpc = "done"
    /\ previousOp = Nil /\ currentOp # Nil
    /\ currentOp.Ops > 0
    /\ delta = Nil

\* C4: when current.ops > previous.ops every delta counter is
\* current.field - previous.field, DeltaBytes is DeltaSent + DeltaRecv and
\* DeltaRetrans is the difference of the Timeouts counters (not of Ntrans).
C4_DeltaCountersAreDifferences ==
    (dpc = "done" /\ BothPresent /\ currentOp.Ops > previousOp.Ops)
        => /\ delta # Nil
           /\ delta.DeltaOps = currentOp.Ops - previousOp.Ops
           /\ delta.DeltaSent = currentOp.BytesSent - previousOp.BytesSent
           /\ delta.DeltaRecv = currentOp.BytesRecv - previousOp.BytesRecv
           /\ delta.DeltaBytes = delta.DeltaSent + delta.DeltaRecv
           /\ delta.DeltaRTT = currentOp.RTT - previousOp.RTT
           /\ delta.DeltaExec = currentOp.ExecuteTime - previousOp.ExecuteTime
           /\ delta.DeltaQueue = currentOp.QueueTime - previousOp.QueueTime
           /\ delta.DeltaErrors = currentOp.Errors - previousOp.Errors
           /\ delta.DeltaRetrans = currentOp.Timeouts - previousOp.Timeouts

\* activity, with Timeouts and Ntrans that moved by different amounts
C4_Witness ==
    /\ dpc = "done" /\ BothPresent
    /\ currentOp.Ops > previousOp.Ops
    /\ currentOp.Timeouts - previousOp.Timeouts # currentOp.Ntrans - previousOp.Ntrans
    /\ delta # Nil
    /\ delta.DeltaRetrans = currentOp.Timeouts - previousOp.Timeouts
    /\ delta.DeltaRetrans # 0

\* f is the finite float whose value is the rational num/den (den > 0)
IsRatio(f, num, den) == f.k = "fin" /\ f.n * den = num * f.d

\* C5: when current.ops > previous.ops and the duration d is positive,
\* IOPS = (current.ops - previous.ops) / d, AvgRTT, AvgExec and AvgQueue are
\* the RTT, execute and queue differences divided by DeltaOps,
\* KBPerOp = DeltaBytes / DeltaOps / 1024 and KBPerSec = DeltaBytes / d / 1024;
\* ops 10->20, rtt 300->600, d = 1 gives IOPS 10 and AvgRTT 30.
C5_RatesAndAverages ==
    (dpc = "done" /\ BothPresent /\ currentOp.Ops > previousOp.Ops
        /\ durationSec.k = "fin" /\ durationSec.n > 0)
        => LET dOps == currentOp.Ops - previousOp.Ops
               dBytes == (currentOp.BytesSent - previousOp.BytesSent)
                         + (currentOp.BytesRecv - previousOp.BytesRecv)
               dn == durationSec.n
               dd == durationSec.d
           IN  /\ delta # Nil
               /\ IsRatio(delta.IOPS, dOps * dd, dn)
               /\ IsRatio(delta.AvgRTT, currentOp.RTT - previousOp.RTT, dOps)
               /\ IsRatio(delta.AvgExec, currentOp.ExecuteTime - previousOp.ExecuteTime, dOps)
               /\ IsRatio(delta.AvgQueue, currentOp.QueueTime - previousOp.QueueTime, dOps)
               /\ IsRatio(delta.KBPerOp, dBytes, dOps * 1024)
               /\ IsRatio(delta.KBPerSec, dBytes * dd, dn * 1024)
               /\ (/\ previousOp.Ops = 10 /\ currentOp.Ops = 20
                   /\ previousOp.RTT = 300 /\ currentOp.RTT = 600
                   /\ durationSec = float64(1))
                      => (delta.IOPS = float64(10) /\ delta.AvgRTT = float64(30))

\* the example of C5 over a duration of half a second, where
\* bytes per operation and bytes per second differ
C5_Witness ==
    /\ dpc = "done" /\ BothPresent
    /\ previousOp.Ops = 10 /\ currentOp.Ops = 20
    /\ previousOp.RTT = 300 /\ currentOp.RTT = 600
    /\ previousOp.BytesSent = 100 /\ currentOp.BytesSent = 200
    /\ durationSec = Fin(1, 2)
    /\ delta # Nil
    /\ delta.IOPS = float64(20)
    /\ delta.AvgRTT = float64(30)
    /\ delta.KBPerSec # delta.KBPerOp

(***************************************************************************)
(* One call of parseMountstats.  The file is an input: every Scan delivers *)
(* one more line, drawn from Catalog.                                      *)
(***************************************************************************)
RECURSIVE Digits(_)
\* the decimal numeral of n >= 0, as the kernel prints it
Digits(n) ==
    LET d == <<"0", "1", "2", "3", "4", "5", "6", "7", "8", "9">>
    IN  IF n < 10 THEN <<d[n + 1]>> ELSE Digits(n \div 10) \o <<d[(n % 10) + 1]>>

RECURSIVE Words(_)
\* the words separated by single spaces
Words(ws) ==
    IF Len(ws) = 0 THEN <<>>
    ELSE IF Len(ws) = 1 THEN ws[1]
    ELSE ws[1] \o <<" ">> \o Words(Tail(ws))

Numbers(ns) == [i \in 1..Len(ns) |-> Digits(ns[i])]

\* "device <dev> mounted on <path> with fstype nfs4 statvers=1.1"
LegacyDeviceLine(dev, path) ==
    Words(<< <<"device">>, dev, <<"mounted">>, <<"on">>, path, <<"with">>,
             <<"fstype">>, <<"nfs", "4">>, <<"statvers=1.1">> >>)

\* "device <dev> on <path> type nfs4 (rw,relatime)"
NewerDeviceLine(dev, path) ==
    Words(<< <<"device">>, dev, <<"on">>, path, <<"type">>, <<"nfs", "4">>,
             <<"(rw,relatime)">> >>)

\* "device <dev> on <path> type nfs4 (rw,relatime) statvers=1.1"
NewerDeviceLineStatvers(dev, path) ==
    NewerDeviceLine(dev, path) \o <<" ", "statvers=1.1">>

DevExport == <<"server", ":", "/export">>       \* server:/export
DevAddr == <<"10.0.0.1", ":", "/mnt/", "nfs">>   \* 10.0.0.1:/mnt/nfs
PathNfs == <<"/mnt/", "nfs">>                    \* /mnt/nfs
PathData == <<"/mnt/data">>

\* "device 10.0.0.1:/mnt/nfs type nfs4": no mount point
MalformedDeviceLine == Words(<< <<"device">>, DevAddr, <<"type">>, <<"nfs", "4">> >>)

\* "device /dev/sda1 mounted on / with fstype ext4"
NonNfsDeviceLine ==
    Words(<< <<"device">>, <<"/dev/sda1">>, <<"mounted">>, <<"on">>, <<"/">>,
             <<"with">>, <<"fstype">>, <<"ext4">> >>)

DeviceLines ==
    { LegacyDeviceLine(DevExport, PathNfs),
      NewerDeviceLineStatvers(DevAddr, PathNfs),
      NewerDeviceLine(DevExport, PathData),
      MalformedDeviceLine,
      NonNfsDeviceLine }

\* "\tage:\t3600" as the kernel indents it, and "age: abc"
AgeLine(n) == <<"\t", "age", ":", "\t">> \o Digits(n)
BadAgeLine == <<"age", ":", " ", "abc">>

\* "events: 1 2 ... n"
EventsLine(n) == Words(<< <<"events", ":">> >> \o Numbers([i \in 1..n |-> i]))
\* "events: abc 2 ... 27"
BadEventsLine ==
    Words(<< <<"events", ":">>, <<"abc">> >> \o Numbers([i \in 1..26 |-> i + 1]))

\* "bytes: 100 0 0 0 200 0 0 0"
BytesLine == Words(<< <<"bytes", ":">> >> \o Numbers(<<100, 0, 0, 0, 200, 0, 0, 0>>))

\* "<name>: n1 n2 ..."
OpLine(name, ns) == Words(<< <<name, ":">> >> \o Numbers(ns))
\* "LOOKUP: abc 95 5 1024 2048 10 20 30 2"
BadOpLine ==
    Words(<< <<"LOOKUP", ":">>, <<"abc">> >> \o Numbers(<<95, 5, 1024, 2048, 10, 20, 30, 2>>))

Read9 == <<10, 1, 1, 100, 200, 500, 300, 400, 700>>
Read9Later == <<20, 2, 2, 200, 400, 1000, 600, 800, 1400>>
Write8 == <<50, 50, 0, 512, 256, 5, 10, 15>>
Getattr2 == <<100, 95>>

StatLines ==
    { AgeLine(3600), BadAgeLine,
      EventsLine(27), EventsLine(26), EventsLine(25), EventsLine(24), BadEventsLine,
      BytesLine,
      OpLine("READ", Read9), OpLine("WRITE", Write8), OpLine("GETATTR", Getattr2),
      BadOpLine }

Catalog == DeviceLines \cup StatLines

DeltaIdle ==
    /\ previousOp = Nil
    /\ currentOp = Nil
    /\ durationSec = FZero
    /\ delta = Nil
    /\ dpc = "idle"
    /\ statsArg = <<>>
    /\ printed = Nil

InitParse ==
    /\ rev \in Revisions
    /\ stream = <<>>
    /\ mounts = EmptyMap
    /\ currentMount = NilSeq
    /\ logged = {}
    /\ perr = "none"
    /\ ppc = "open"
    /\ earlier = Nil
    /\ DeltaIdle
    /\ MainIdle

\* os.Open succeeds
Open ==
    /\ ppc = "open"
    /\ ppc' = "scan"
    /\ UNCHANGED <<rev, stream, mounts, currentMount, logged, perr>>
    /\ UNCHANGED earlier
    /\ UNCHANGED deltaVars
    /\ UNCHANGED mainVars

\* os.Open fails: "return nil, err"
OpenFails ==
    /\ ppc = "open"
    /\ ppc' = "returned"
    /\ perr' = "open"
    /\ UNCHANGED <<rev, stream, mounts, currentMount, logged>>
    /\ UNCHANGED earlier
    /\ UNCHANGED deltaVars
    /\ UNCHANGED mainVars

\* scanner.Scan() delivers a line and the loop body runs on it
Scan ==
    /\ ppc = "scan"
    /\ Len(stream) < MaxLines
    /\ \E text \in Catalog :
         LET st == parseLine(rev, [mounts |-> mounts, currentMount |-> currentMount,
                                   logged |-> logged, panicked |-> FALSE], text)
         IN  /\ stream' = Append(stream, text)
             /\ mounts' = st.mounts
             /\ currentMount' = st.currentMount
             /\ logged' = st.logged
             /\ ppc' = IF st.panicked THEN "panic" ELSE "scan"
    /\ UNCHANGED <<rev, perr>>
    /\ UNCHANGED earlier
    /\ UNCHANGED deltaVars
    /\ UNCHANGED mainVars

\* scanner.Scan() returns false at the end of the file: "return mounts, nil"
ReturnEOF ==
    /\ ppc = "scan"
    /\ ppc' = "returned"
    /\ perr' = "none"
    /\ UNCHANGED <<rev, stream, mounts, currentMount, logged>>
    /\ UNCHANGED earlier
    /\ UNCHANGED deltaVars
    /\ UNCHANGED mainVars

\* scanner.Scan() returns false on a read error: "return mounts, scanner.Err()"
ReturnScanErr ==
    /\ ppc = "scan"
    /\ ppc' = "returned"
    /\ perr' = "scan"
    /\ UNCHANGED <<rev, stream, mounts, currentMount, logged>>
    /\ UNCHANGED earlier
    /\ UNCHANGED deltaVars
    /\ UNCHANGED mainVars

NextParse == Open \/ OpenFails \/ Scan \/ ReturnEOF \/ ReturnScanErr

SpecParse == InitParse /\ [][NextParse]_vars

(***************************************************************************)
(* Properties of parseMountstats, checked under SpecParse                  *)
(***************************************************************************)
Last(s) == s[Len(s)]

Devices == {DevExport, DevAddr}
Paths == {PathNfs, PathData}

\* the line just scanned is a statistics line read with a current mount
\* (a statistics line leaves currentMount as it was)
ScannedInMount(text) ==
    /\ stream # <<>> /\ Last(stream) = text
    /\ currentMount # NilSeq

\* C6: for a valid NFS device line of either layout, parseMountstats adds a
\* mount record whose key and MountPoint are the <path> token and whose
\* Device is the raw <server:export> token.
C6_DeviceLineExtracted ==
    \A dev \in Devices, path \in Paths :
        (/\ stream # <<>>
         /\ Last(stream) \in {LegacyDeviceLine(dev, path), NewerDeviceLine(dev, path),
                              NewerDeviceLineStatvers(dev, path)})
            => /\ path \in DOMAIN mounts
               /\ mounts[path].MountPoint = path
               /\ mounts[path].Device = dev

\* C7: a line that starts with "device" and contains "nfs" but has no mount
\* point token ("device 10.0.0.1:/mnt/nfs type nfs4") makes parseMountstats
\* return an error; it is never silently skipped.
C7_MalformedDeviceLineIsError ==
    (ppc = "returned" /\ \E i \in 1..Len(stream) : stream[i] = MalformedDeviceLine)
        => perr # "none"

NonNumericLines == {BadAgeLine, BadEventsLine, BadOpLine}

\* C8: a non-numeric token where an integer is expected, in an age, events
\* or operation line read inside a mount context, makes the whole call
\* fail: no snapshot is returned without an error.
C8_NonNumericFailsCall ==
    (/\ ppc = "returned"
     /\ \E i, j \in 1..Len(stream) :
            /\ i < j
            /\ stream[i] \in {LegacyDeviceLine(dev, path) : dev \in Devices, path \in Paths}
            /\ stream[j] \in NonNumericLines)
        => perr # "none"

OpStored(name, ns, errors) ==
    LET ops == mounts[currentMount].Operations
    IN  /\ <<name>> \in DOMAIN ops
        /\ ops[<<name>>] = NFSOperation(<<name>>, ns[1], ns[2], ns[3], ns[4], ns[5],
                                        ns[6], ns[7], ns[8], errors)

OpLineNames == {"READ", "WRITE", "GETATTR"}
OpLineNumbers == {Read9, Write8, Getattr2}

EventsUpTo(n) == [i \in 1..NumEvents |-> IF i <= n THEN i ELSE 0]

RECURSIVE Split(_, _)
Split(s, sep) ==
    LET i == Index(s, sep)
    IN  IF i = 0 THEN <<s>>
        ELSE <<SubSeq(s, 1, i - 1)>> \o Split(SubSeq(s, i + Len(sep), Len(s)), sep)

parseOperationsFilter(operations) ==
    IF operations = <<>> THEN NilFilter
    ELSE LET parts == Split(operations, <<",">>)
         IN  [nil |-> FALSE, keys |-> {TrimSpace(parts[i]) : i \in 1..Len(parts)}]

\* a loop that applies no filter
FilteredOutNever(filter, name) == FALSE

\* "opsFilter != nil && !opsFilter[name]"
FilteredOut(filter, name) == ~filter.nil /\ name \notin filter.keys

\* the orders in which "range" may deliver the keys of a map
Orders(S) ==
    {o \in [1..Cardinality(S) -> S] :
        \A i, j \in 1..Cardinality(S) : o[i] = o[j] => i = j}

Range(f) == {f[i] : i \in DOMAIN f}

\* interval.Seconds()
Seconds(d) == Fin(d, 1000)

\* one whole call of parseMountstats on a source: os.Open fails, or the
\* scanner loop runs over the lines of the file (a read error of the scanner
\* also ends in a non-nil error, which the callers treat alike)
RECURSIVE scanLines(_, _, _)
scanLines(r, st, lines) ==
    IF lines = <<>> \/ st.panicked THEN st
    ELSE scanLines(r, parseLine(r, st, Head(lines)), Tail(lines))

parseMountstats(r, src) ==
    IF ~src.readable
    THEN [mounts |-> EmptyMap, err |-> TRUE, panicked |-> FALSE]
    ELSE LET st == scanLines(r, [mounts |-> EmptyMap, currentMount |-> NilSeq,
                                 logged |-> {}, panicked |-> FALSE], src.lines)
         IN  [mounts |-> st.mounts, err |-> FALSE, panicked |-> st.panicked]

\* getMountsToMonitor without the check that the mount point is mounted
getMountsToMonitorUnchecked(mountPoint, prevMounts) ==
    IF mountPoint # <<>>
    THEN {[exit |-> FALSE, list |-> <<mountPoint>>]}
    ELSE IF DOMAIN prevMounts = {}
         THEN {[exit |-> TRUE, list |-> <<>>]}
         ELSE {[exit |-> FALSE, list |-> o] : o \in Orders(DOMAIN prevMounts)}

\* the outcomes of getMountsToMonitor: log.Fatalf and os.Exit(1) end the
\* process, otherwise the list is returned
getMountsToMonitor(mountPoint, prevMounts) ==
    IF mountPoint # <<>>
    THEN IF mountPoint \notin DOMAIN prevMounts
         THEN {[exit |-> TRUE, list |-> <<>>]}
         ELSE {[exit |-> FALSE, list |-> <<mountPoint>>]}
    ELSE IF DOMAIN prevMounts = {}
         THEN {[exit |-> TRUE, list |-> <<>>]}
         ELSE {[exit |-> FALSE, list |-> o] : o \in Orders(DOMAIN prevMounts)}

\* a display that leaves out the nil entries only
PrintedNonNil(s) == s # Nil

\* "if s == nil || s.DeltaOps == 0 { continue }" of both display routines
Printed(s) == s # Nil /\ s.DeltaOps # 0

\* the attribute cache block dereferences mount.Events and
\* previousMount.Events
displayStatsNfsiostat(mount, stats, previousMount, showAttr) ==
    [routine |-> "nfsiostat", mount |-> mount.MountPoint, header |-> TRUE,
     rows |-> SelectSeq(stats, Printed),
     panicked |-> /\ showAttr
                  /\ previousMount # Nil
                  /\ (mount.Events = NilSeq \/ previousMount.Events = NilSeq)]

displayStatsSimple(mount, stats) ==
    IF Len(stats) = 0
    THEN [routine |-> "simple", mount |-> mount.MountPoint, header |-> FALSE,
          rows |-> <<>>, panicked |-> FALSE]
    ELSE [routine |-> "simple", mount |-> mount.MountPoint, header |-> TRUE,
          rows |-> SelectSeq(stats, Printed), panicked |-> FALSE]

\* "Monitoring NFS mount: %s (%s)" with snapshot[monitorMounts[0]].Device
printHeader(list, snapshot) ==
    [routine |-> "header", mount |-> list[1], header |-> TRUE, rows |-> <<>>,
     panicked |-> MapGet(snapshot, list[1]) = Nil]

\* log.Printf("Error reading mountstats: %v", err)
LogLine ==
    [routine |-> "log", mount |-> <<>>, header |-> FALSE, rows |-> <<>>,
     panicked |-> FALSE]

\* the struct literal of printInitialSummary: the counters since the mount,
\* the rates over the age of the mount
summaryDelta(op, mountAgeSec) ==
    [Operation |-> op.Name,
     DeltaOps |-> op.Ops,
     DeltaBytes |-> op.BytesSent + op.BytesRecv,
     DeltaSent |-> op.BytesSent,
     DeltaRecv |-> op.BytesRecv,
     DeltaRTT |-> op.RTT,
     DeltaExec |-> op.ExecuteTime,
     DeltaQueue |-> op.QueueTime,
     DeltaErrors |-> op.Errors,
     DeltaRetrans |-> op.Timeouts,
     AvgRTT |-> FDiv(float64(op.RTT), float64(op.Ops)),
     AvgExec |-> FDiv(float64(op.ExecuteTime), float64(op.Ops)),
     AvgQueue |-> FDiv(float64(op.QueueTime), float64(op.Ops)),
     KBPerOp |-> FDiv(FDiv(float64(op.BytesSent + op.BytesRecv), float64(op.Ops)),
                      float64(1024)),
     KBPerSec |-> FDiv(FDiv(float64(op.BytesSent + op.BytesRecv), mountAgeSec),
                       float64(1024)),
     IOPS |-> FDiv(float64(op.Ops), mountAgeSec)]

\* "for _, op := range mount.Operations" of printInitialSummary, the map
\* delivering its keys in the order o
summaryStats(mount, filter, o) ==
    LET ops == [i \in 1..Len(o) |-> mount.Operations[o[i]]]
        Kept(op) == op.Ops > 0 /\ ~FilteredOut(filter, op.Name)
        kept == SelectSeq(ops, Kept)
    IN  [i \in 1..Len(kept) |-> summaryDelta(kept[i], float64(mount.Age))]

\* "for _, mp := range monitorMounts" of printInitialSummary: the outcomes
\* [built, shown] over the orders of the Operations maps
RECURSIVE summaryLoop(_, _, _, _)
summaryLoop(list, prevMounts, filter, showAttr) ==
    IF list = <<>> THEN {[built |-> {}, shown |-> <<>>]}
    ELSE LET mount == MapGet(prevMounts, Head(list))
             rest == summaryLoop(Tail(list), prevMounts, filter, showAttr)
         IN  IF mount = Nil THEN rest
             ELSE { LET stats == summaryStats(mount, filter, o)
                    IN  [built |-> Range(stats) \cup r.built,
                         shown |-> (IF Len(stats) > 0
                                    THEN <<displayStatsNfsiostat(mount, stats, Nil,
                                                                 showAttr)>>
                                    ELSE <<>>) \o r.shown] :
                      o \in Orders(DOMAIN mount.Operations), r \in rest }

printInitialSummary(nfsiostatMode, list, prevMounts, filter, showAttr) ==
    IF nfsiostatMode
    THEN {[built |-> o.built, shown |-> o.shown, panicked |-> FALSE] :
             o \in summaryLoop(list, prevMounts, filter, showAttr)}
    ELSE LET h == printHeader(list, prevMounts)
         IN  {[built |-> {}, shown |-> <<h>>, panicked |-> h.panicked]}

\* "for opName, currentOp := range currentMount.Operations" of
\* monitoringLoop in the order o: the delta of each operation that passes the
\* filter and has a previous record, Nil for the others
tickDeltas(curMount, prevMount, filter, dur, o) ==
    [i \in 1..Len(o) |->
        IF FilteredOut(filter, o[i]) THEN Nil
        ELSE LET prevOp == MapGet(prevMount.Operations, o[i])
             IN  IF prevOp = Nil THEN Nil
                 ELSE calculateDelta(prevOp, curMount.Operations[o[i]], dur)]

\* "if delta != nil && delta.DeltaOps > 0 { stats = append(stats, delta) }"
Active(d) == d # Nil /\ d.DeltaOps > 0

\* "Process each monitored mount": the outcomes [built, shown, panicked];
\* a panic of the display ends the loop
RECURSIVE tickLoop(_, _, _, _, _, _, _)
tickLoop(list, curMounts, prevMounts, filter, dur, nfsiostatMode, showAttr) ==
    IF list = <<>> THEN {[built |-> {}, shown |-> <<>>, panicked |-> FALSE]}
    ELSE LET curMount == MapGet(curMounts, Head(list))
             prevMount == MapGet(prevMounts, Head(list))
             rest == tickLoop(Tail(list), curMounts, prevMounts, filter, dur,
                              nfsiostatMode, showAttr)
         IN  IF curMount = Nil \/ prevMount = Nil THEN rest
             ELSE { LET deltas == tickDeltas(curMount, prevMount, filter, dur, o)
                        stats == SelectSeq(deltas, Active)
                        call == IF nfsiostatMode
                                THEN <<displayStatsNfsiostat(curMount, stats, prevMount,
                                                             showAttr)>>
                                ELSE IF Len(stats) > 0
                                THEN <<displayStatsSimple(curMount, stats)>>
                                ELSE <<>>
                        stop == call # <<>> /\ call[1].panicked
                    IN  [built |-> (Range(deltas) \ {Nil})
                                   \cup (IF stop THEN {} ELSE r.built),
                         shown |-> call \o (IF stop THEN <<>> ELSE r.shown),
                         panicked |-> stop \/ r.panicked] :
                      o \in Orders(DOMAIN curMount.Operations), r \in rest }

\* the body of "case <-ticker.C" after a successful parse, up to the update
\* of previousMounts
tickBody(f, list, curMounts, prevMounts, filter) ==
    LET clear == f.clearScreen /\ ~f.nfsiostatMode
        h == printHeader(list, curMounts)
        head == IF clear THEN <<h>> ELSE <<>>
    IN  IF clear /\ h.panicked
        THEN {[built |-> {}, shown |-> head, panicked |-> TRUE]}
        ELSE {[built |-> o.built, shown |-> head \o o.shown, panicked |-> o.panicked] :
                 o \in tickLoop(list, curMounts, prevMounts, filter,
                                Seconds(f.interval), f.nfsiostatMode, f.showAttr)}

(***************************************************************************)
(* The process: main up to monitoringLoop, then one action per ticker tick *)
(* and one for the signal.  The mountstats file is what the kernel shows   *)
(* at the time of each parse.                                              *)
(***************************************************************************)
DeviceNfs == LegacyDeviceLine(DevExport, PathNfs)
DeviceData == LegacyDeviceLine(DevAddr, PathData)
Write9 == <<50, 50, 0, 512, 256, 5, 10, 15, 0>>

Files ==
    { <<>>,
      <<DeviceNfs, AgeLine(3600), EventsLine(27),
        OpLine("READ", Read9), OpLine("WRITE", Write9)>>,
      <<DeviceNfs, AgeLine(3600), EventsLine(27),
        OpLine("READ", Read9Later), OpLine("WRITE", Write9)>>,
      <<DeviceNfs, AgeLine(0), OpLine("READ", Read9)>>,
      <<DeviceNfs, OpLine("READ", Read9)>>,
      <<DeviceData, AgeLine(3600), OpLine("READ", Read9Later)>>,
      <<DeviceNfs, BadEventsLine, OpLine("READ", Read9Later)>>,
      <<DeviceNfs, OpLine("READ", Read9),
        DeviceData, AgeLine(3600), OpLine("READ", Read9)>>,
      <<DeviceNfs, OpLine("READ", Read9Later),
        DeviceData, AgeLine(3600), OpLine("READ", Read9Later)>> }

Sources ==
    {[readable |-> TRUE, lines |-> f] : f \in Files}
        \cup {[readable |-> FALSE, lines |-> <<>>]}

MountPoints == {<<>>, PathNfs, PathData}
OperationsFlags ==
    { <<>>,
      <<"READ", ",", " ", "GETATTR">>,
      <<" ", "WRITE", " ", ",", "READ", ",", "READ">> }
Intervals == {0, 500, 2000}
Counts == {0, 1, 2}

\* parseMountstats tabulated over the sources
Parsed == [r \in Revisions |-> [src \in Sources |-> parseMountstats(r, src)]]

\* the state of main after initFlags and parseOperationsFilter; main.go is
\* built with stats.go, the fixed-position revision of the device-line code
InitMain ==
    /\ flags \in [mountPoint : MountPoints, operations : OperationsFlags,
                  interval : Intervals, count : Counts, showAttr : BOOLEAN,
                  nfsiostatMode : BOOLEAN, clearScreen : BOOLEAN]
    /\ opsFilter = parseOperationsFilter(flags.operations)
    /\ previousMounts = EmptyMap
    /\ monitorMounts = <<>>
    /\ iteration = 0
    /\ built = {}
    /\ shown = <<>>
    /\ merr = FALSE
    /\ previousTick = 0
    /\ elapsed = FZero
    /\ duration = FZero
    /\ sigChan = 0
    /\ currentMounts = EmptyMap
    /\ mpc = "parse"
    /\ ParseIdle
    /\ DeltaIdle

\* main without the log.Fatal: it goes on with the map the failed call returned
InitialParseNoFatal ==
    /\ mpc = "parse"
    /\ \E src \in Sources :
         LET res == Parsed[rev][src]
         IN  /\ mpc' = IF res.panicked THEN "panic" ELSE "select"
             /\ previousMounts' = IF res.panicked THEN previousMounts ELSE res.mounts
             /\ merr' = (~res.panicked /\ res.err)
    /\ UNCHANGED <<flags, opsFilter, monitorMounts, iteration, built, shown>>
    /\ UNCHANGED <<previousTick, elapsed, duration, sigChan, currentMounts>>
    /\ UNCHANGED deltaVars
    /\ UNCHANGED parseVars

\* "previousMounts, err := parseMountstats(*mountstatsPath)" and log.Fatal
InitialParse ==
    /\ mpc = "parse"
    /\ \E src \in Sources :
         LET res == Parsed[rev][src]
         IN  /\ mpc' = IF res.panicked THEN "panic"
                       ELSE IF res.err THEN "exit1" ELSE "select"
             /\ previousMounts' = IF res.panicked \/ res.err THEN previousMounts
                                  ELSE res.mounts
             /\ merr' = (~res.panicked /\ res.err)
    /\ UNCHANGED <<flags, opsFilter, monitorMounts, iteration, built, shown>>
    /\ UNCHANGED <<previousTick, elapsed, duration, sigChan, currentMounts>>
    /\ UNCHANGED deltaVars
    /\ UNCHANGED parseVars

GetMountsToMonitor ==
    /\ mpc = "select"
    /\ \E r \in getMountsToMonitor(flags.mountPoint, previousMounts) :
         /\ monitorMounts' = r.list
         /\ mpc' = IF r.exit THEN "exit1" ELSE "summary"
    /\ UNCHANGED <<flags, opsFilter, previousMounts, iteration, built, shown>>
    /\ UNCHANGED <<merr, previousTick, elapsed, duration, sigChan, currentMounts>>
    /\ UNCHANGED deltaVars
    /\ UNCHANGED parseVars

PrintInitialSummary ==
    /\ mpc = "summary"
    /\ \E o \in printInitialSummary(flags.nfsiostatMode, monitorMounts, previousMounts,
                                    opsFilter, flags.showAttr) :
         /\ built' = o.built
         /\ shown' = o.shown
         /\ mpc' = IF o.panicked THEN "panic" ELSE "ticker"
    /\ UNCHANGED <<flags, opsFilter, previousMounts, monitorMounts, iteration>>
    /\ UNCHANGED <<merr, previousTick, elapsed, duration, sigChan, currentMounts>>
    /\ UNCHANGED deltaVars
    /\ UNCHANGED parseVars

\* "iteration := 0; ticker := time.NewTicker(interval)": NewTicker panics on
\* a non-positive interval
StartLoop ==
    /\ mpc = "ticker"
    /\ iteration' = 0
    /\ mpc' = IF flags.interval <= 0 THEN "panic" ELSE "loop"
    /\ built' = {}
    /\ shown' = <<>>
    /\ UNCHANGED <<flags, opsFilter, previousMounts, monitorMounts>>
    /\ UNCHANGED <<merr, previousTick, elapsed, duration, sigChan, currentMounts>>
    /\ UNCHANGED deltaVars
    /\ UNCHANGED parseVars

\* "case <-ticker.C"
Tick ==
    /\ mpc = "loop"
    /\ iteration < MaxTicks
    /\ iteration' = iteration + 1
    /\ \E src \in Sources :
         LET res == Parsed[rev][src]
         IN  IF res.panicked
             THEN /\ mpc' = "panic"
                  /\ built' = {}
                  /\ shown' = <<>>
                  /\ merr' = FALSE
                  /\ currentMounts' = EmptyMap
                  /\ UNCHANGED <<previousMounts, previousTick, elapsed, duration>>
             ELSE IF res.err
             THEN /\ mpc' = "loop"
                  /\ built' = {}
                  /\ shown' = <<LogLine>>
                  /\ merr' = TRUE
                  /\ currentMounts' = EmptyMap
                  /\ UNCHANGED <<previousMounts, previousTick, elapsed, duration>>
             ELSE \E o \in tickBody(flags, monitorMounts, res.mounts, previousMounts,
                                    opsFilter) :
                    /\ built' = o.built
                    /\ shown' = o.shown
                    /\ merr' = FALSE
                    /\ currentMounts' = res.mounts
                    /\ duration' = Seconds(flags.interval)
                    /\ elapsed' = Seconds((iteration' - previousTick) * flags.interval)
                    /\ IF o.panicked
                       THEN /\ mpc' = "panic"
                            /\ UNCHANGED <<previousMounts, previousTick>>
                       ELSE /\ previousMounts' = res.mounts
                            /\ previousTick' = iteration'
                            /\ mpc' = IF flags.count > 0 /\ iteration' >= flags.count
                                      THEN "returned" ELSE "loop"
    /\ UNCHANGED <<flags, opsFilter, monitorMounts, sigChan>>
    /\ UNCHANGED deltaVars
    /\ UNCHANGED parseVars

\* the processes that still run main: log.Fatal, a panic and the return of
\* monitoringLoop end it
Running == mpc \in {"parse", "select", "summary", "ticker", "loop"}

\* SIGINT or SIGTERM arrives after signal.Notify: the signal package sends it
\* on sigChan without blocking, and drops it when the buffer is full
Notify ==
    /\ Running
    /\ sigChan = 0
    /\ sigChan' = 1
    /\ UNCHANGED <<flags, opsFilter, previousMounts, monitorMounts, iteration>>
    /\ UNCHANGED <<built, shown, merr, previousTick, elapsed, duration>>
    /\ UNCHANGED <<currentMounts, mpc>>
    /\ UNCHANGED deltaVars
    /\ UNCHANGED parseVars

\* "case <-sigChan"
Signal ==
    /\ mpc = "loop"
    /\ sigChan > 0
    /\ sigChan' = sigChan - 1
    /\ mpc' = "returned"
    /\ built' = {}
    /\ shown' = <<>>
    /\ UNCHANGED <<flags, opsFilter, previousMounts, monitorMounts, iteration>>
    /\ UNCHANGED <<merr, previousTick, elapsed, duration, currentMounts>>
    /\ UNCHANGED deltaVars
    /\ UNCHANGED parseVars

NextMain ==
    \/ InitialParse
    \/ GetMountsToMonitor
    \/ PrintInitialSummary
    \/ StartLoop
    \/ Tick
    \/ Notify
    \/ Signal

SpecMain == InitMain /\ [][NextMain]_vars

\* the select of monitoringLoop chooses at random among the cases that are
\* ready: a signal case that stays ready is eventually the one chosen
SpecMainFair == SpecMain /\ WF_vars(Signal)

(***************************************************************************)
(* Properties of the DeltaStats records the process builds, checked under  *)
(* SpecMain                                                                *)
(***************************************************************************)
\* a rate or average is finite unless it came from a division by zero
FiniteRates(s) ==
    /\ IsFinite(s.IOPS)
    /\ IsFinite(s.KBPerSec)
    /\ IsFinite(s.KBPerOp)
    /\ IsFinite(s.AvgRTT)
    /\ IsFinite(s.AvgExec)
    /\ IsFinite(s.AvgQueue)

\* C3: every DeltaStats record the program builds, by calculateDelta in the
\* monitoring loop and by printInitialSummary for the initial nfsiostat
\* summary, has its rates and averages computed without a division by zero,
\* also when the age of a mount is 0 or was never parsed.
C3_NoDivisionByZero == \A s \in built : FiniteRates(s)

(***************************************************************************)
(* parseMountstats on the lines of a mount section: the bytes line, the    *)
(* lines with an excluded prefix, repeated operation lines, device tokens  *)
(* with no colon and with two, and device lines of other filesystems.      *)
(* The call is the one of SpecParse; only the lines of the file differ.    *)
(***************************************************************************)
\* "bytes: 100 0 0 0" (five fields) and "bytes: 100" (two fields)
ShortBytesLine == Words(<< <<"bytes", ":">> >> \o Numbers(<<100, 0, 0, 0>>))
TwoFieldBytesLine == Words(<< <<"bytes", ":">> >> \o Numbers(<<100>>))

OneToNine == <<1, 2, 3, 4, 5, 6, 7, 8, 9>>
\* "nfsv4: 1 2 3 4 5 6 7 8 9" and "xprt: 1 2 3 4 5 6 7 8 9"
Nfsv4Line == Words(<< <<"nfs", "v4", ":">> >> \o Numbers(OneToNine))
XprtLine == Words(<< <<"xprt", ":">> >> \o Numbers(OneToNine))

\* "per-op statistics"
PerOpLine == <<"per-op", " ", "statistics">>

DevNoColon == <<"server">>                                  \* server
DevTwoColons == <<"server", ":", "/export", ":", "/sub">>   \* server:/export:/sub
PathBackup == <<"/mnt/", "nfs", "backup">>                  \* /mnt/nfsbackup

\* "device /dev/sda1 mounted on /mnt/nfsbackup with fstype ext4"
NonNfsDeviceLineAt(path) ==
    Words(<< <<"device">>, <<"/dev/sda1">>, <<"mounted">>, <<"on">>, path,
             <<"with">>, <<"fstype">>, <<"ext4">> >>)

SectionDeviceLines ==
    { LegacyDeviceLine(DevExport, PathNfs),
      LegacyDeviceLine(DevNoColon, PathData),
      LegacyDeviceLine(DevTwoColons, PathBackup),
      NonNfsDeviceLine,
      NonNfsDeviceLineAt(PathBackup) }

SectionStatLines ==
    { BytesLine, ShortBytesLine, TwoFieldBytesLine,
      Nfsv4Line, XprtLine, PerOpLine,
      OpLine("READ", Read9), OpLine("READ", Read9Later), OpLine("WRITE", Write9) }

SectionCatalog == SectionDeviceLines \cup SectionStatLines

\* scanner.Scan() delivers a line of a mount section
ScanSection ==
    /\ ppc = "scan"
    /\ Len(stream) < MaxLines
    /\ \E text \in SectionCatalog :
         LET st == parseLine(rev, [mounts |-> mounts, currentMount |-> currentMount,
                                   logged |-> logged, panicked |-> FALSE], text)
         IN  /\ stream' = Append(stream, text)
             /\ mounts' = st.mounts
             /\ currentMount' = st.currentMount
             /\ logged' = st.logged
             /\ ppc' = IF st.panicked THEN "panic" ELSE "scan"
    /\ UNCHANGED <<rev, perr>>
    /\ UNCHANGED earlier
    /\ UNCHANGED deltaVars
    /\ UNCHANGED mainVars

NextSections == Open \/ OpenFails \/ ScanSection \/ ReturnEOF \/ ReturnScanErr

SpecSections == InitParse /\ [][NextSections]_vars

(***************************************************************************)
(* Properties of the lines of a mount section, checked under SpecSections  *)
(***************************************************************************)
\* C11: for a bytes line inside a mount context BytesRead is token 1 and
\* BytesWrite token 5 of the line; a bytes line with fewer than 6 tokens is
\* reported as a parse error and never causes an out-of-range access or a
\* crash.
C11_BytesLine ==
    /\ ScannedInMount(BytesLine)
          => /\ mounts[currentMount].BytesRead = 100
             /\ mounts[currentMount].BytesWrite = 200
    /\ ppc # "panic"
    /\ \A short \in {ShortBytesLine, TwoFieldBytesLine} :
          (ppc = "returned" /\ ScannedInMount(short))
              => (perr # "none" \/ logged \cap {"bytes read", "bytes write"} # {})

\* C12: a line inside a mount context that begins with an excluded prefix
\* (RPC, xprt, per-op, opts, caps, sec, nfsv3, nfsv4) never creates or
\* replaces an operation record, whatever follows its colon; checked for the
\* lines "xprt: 1 ... 9" and "nfsv4: 1 ... 9", whose names no other line
\* carries.
C12_ExcludedPrefixes ==
    \A mp \in DOMAIN mounts :
        \A name \in {<<"xprt">>, <<"nfs", "v4">>} :
            name \notin DOMAIN mounts[mp].Operations

\* the lines of s from the first one that opens a mount
RECURSIVE FromFirstDevice(_, _)
FromFirstDevice(r, s) ==
    IF s = <<>> THEN <<>>
    ELSE IF parseLine(r, freshCall, Head(s)).currentMount # NilSeq THEN s
    ELSE FromFirstDevice(r, Tail(s))

\* C13: every line read before the first accepted NFS device line is
\* ignored: while no device line has been accepted the map is empty, and the
\* map is at every point the one a call builds from the stream without
\* those lines.
C13_LinesBeforeFirstDeviceIgnored ==
    LET rest == FromFirstDevice(rev, stream)
    IN  /\ rest = <<>> => (mounts = EmptyMap /\ currentMount = NilSeq)
        /\ mounts = scanLines(rev, freshCall, rest).mounts

\* a bytes line and an operation line were read before the device line of
\* /mnt/nfs, whose record has no bytes and no operations
C13_Witness ==
    /\ stream = <<BytesLine, OpLine("READ", Read9), LegacyDeviceLine(DevExport, PathNfs)>>
    /\ ppc = "returned"
    /\ perr = "none"
    /\ DOMAIN mounts = {PathNfs}
    /\ mounts[PathNfs].BytesRead = 0
    /\ mounts[PathNfs].Operations = EmptyMap

\* the record of an operation line of nine numbers
OpRecord(name, ns) ==
    NFSOperation(<<name>>, ns[1], ns[2], ns[3], ns[4], ns[5], ns[6], ns[7], ns[8], ns[9])

SectionOpLines == {<<"READ", Read9>>, <<"READ", Read9Later>>, <<"WRITE", Write9>>}

\* C14: an operation line read in a mount context leaves exactly one record
\* for its name in the Operations map of the mount, with the fields of that
\* line, also when the name had a record before (last-write-wins); the
\* records of other names and the other mounts are unaffected.
C14_LastWriteWins ==
    [][\A l \in SectionOpLines :
          (currentMount # NilSeq /\ stream' = Append(stream, OpLine(l[1], l[2])))
              => mounts' = [mounts EXCEPT ![currentMount].Operations =
                                MapPut(@, <<l[1]>>, OpRecord(l[1], l[2]))]]_vars

\* READ was read twice in one mount context: its record is the second line's
C14_Witness ==
    /\ stream = <<LegacyDeviceLine(DevExport, PathNfs), OpLine("READ", Read9),
                  OpLine("READ", Read9Later)>>
    /\ DOMAIN mounts[PathNfs].Operations = {<<"READ">>}
    /\ mounts[PathNfs].Operations[<<"READ">>] = OpRecord("READ", Read9Later)

\* C15: a device line of a filesystem other than NFS ("device /dev/sda1
\* mounted on <path> with fstype ext4") never creates a mount record,
\* whatever its device and path tokens are, and the NFS mounts of the same
\* stream are still returned.
C15_NonNfsDeviceLineIgnored ==
    /\ \A mp \in DOMAIN mounts : mounts[mp].Device # <<"/dev/sda1">>
    /\ (/\ ppc = "returned"
        /\ perr = "none"
        /\ \E i \in 1..Len(stream) : stream[i] = LegacyDeviceLine(DevExport, PathNfs))
          => PathNfs \in DOMAIN mounts

\* C16: Server is the text of the device token before its first colon and
\* Export the text after it, further colons included; when the token has no
\* colon, Server is the whole token and Export is "/".
C16_ServerExportSplit ==
    \A mp \in DOMAIN mounts :
        LET m == mounts[mp]
        IN  IF Contains(m.Device, <<":">>)
            THEN /\ m.Device = m.Server \o <<":">> \o m.Export
                 /\ ~Contains(m.Server, <<":">>)
            ELSE /\ m.Server = m.Device
                 /\ m.Export = <<"/">>

\* three mounts: a device token with one colon, with two, and with none
C16_Witness ==
    /\ DOMAIN mounts = {PathNfs, PathData, PathBackup}
    /\ mounts[PathNfs].Server = <<"server">>
    /\ mounts[PathNfs].Export = <<"/export">>
    /\ mounts[PathBackup].Device = DevTwoColons
    /\ mounts[PathBackup].Server = <<"server">>
    /\ mounts[PathBackup].Export = <<"/export", ":", "/sub">>
    /\ mounts[PathData].Server = <<"server">>
    /\ mounts[PathData].Export = <<"/">>

(***************************************************************************)
(* Two calls of parseMountstats, one after the other.  The second call     *)
(* starts from its own locals (stats.go:152-155); `earlier' keeps what the *)
(* first call read and what it returned.                                   *)
(***************************************************************************)
CallCatalog ==
    { DeviceNfs, DeviceData, OpLine("READ", Read9), OpLine("READ", Read9Later) }

ScanCall ==
    /\ ppc = "scan"
    /\ Len(stream) < MaxCallLines
    /\ \E text \in CallCatalog :
         LET st == parseLine(rev, [mounts |-> mounts, currentMount |-> currentMount,
                                   logged |-> logged, panicked |-> FALSE], text)
         IN  /\ stream' = Append(stream, text)
             /\ mounts' = st.mounts
             /\ currentMount' = st.currentMount
             /\ logged' = st.logged
             /\ ppc' = IF st.panicked THEN "panic" ELSE "scan"
    /\ UNCHANGED <<rev, perr>>
    /\ UNCHANGED earlier
    /\ UNCHANGED deltaVars
    /\ UNCHANGED mainVars

\* the caller keeps the returned map and calls parseMountstats again
CallAgain ==
    /\ ppc = "returned"
    /\ earlier = Nil
    /\ earlier' = [stream |-> stream, mounts |-> mounts, perr |-> perr]
    /\ stream' = <<>>
    /\ mounts' = freshCall.mounts
    /\ currentMount' = freshCall.currentMount
    /\ logged' = freshCall.logged
    /\ perr' = "none"
    /\ ppc' = "open"
    /\ UNCHANGED rev
    /\ UNCHANGED deltaVars
    /\ UNCHANGED mainVars

NextCalls ==
    Open \/ OpenFails \/ ScanCall \/ ReturnEOF \/ ReturnScanErr \/ CallAgain

SpecCalls == InitParse /\ [][NextCalls]_vars

C17_WitnessIndependent ==
    /\ ppc = "returned"
    /\ earlier # Nil
    /\ DOMAIN earlier.mounts = {PathNfs}
    /\ stream = <<>>
    /\ perr = "none"
    /\ mounts = EmptyMap

(***************************************************************************)
(* Properties of main and of the monitoring loop, checked under SpecMain.  *)
(* The ticker is taken at its best: tick i arrives i intervals after the   *)
(* initial parse of main, and each parse happens at the time of its tick.  *)
(***************************************************************************)
\* C18: the program exits fatally, before any monitoring tick, when the
\* initial parseMountstats call fails; when the parse of a later tick fails,
\* the loop logs the error, shows no output for that tick, keeps the
\* snapshot it had and stays in the loop for the following ticks.
C18_ParseFailures ==
    [][ /\ (mpc = "parse" /\ merr')
            => (mpc' = "exit1" /\ iteration' = 0 /\ shown' = <<>> /\ built' = {})
        /\ (mpc = "loop" /\ iteration' = iteration + 1 /\ merr')
            => /\ mpc' = "loop"
               /\ shown' = <<LogLine>>
               /\ built' = {}
               /\ previousMounts' = previousMounts ]_vars

\* the parse of tick 1 failed and tick 2 was processed and showed its output
C18_Witness ==
    /\ iteration = 2
    /\ ~merr
    /\ previousTick = 2
    /\ elapsed = Seconds(2 * flags.interval)
    /\ shown # <<>>
    /\ mpc = "loop"

\* the initial parse failed and the process exited
C18_WitnessFatal ==
    /\ merr
    /\ mpc = "exit1"
    /\ iteration = 0

\* C19: on every tick where deltas are computed, the previous snapshot comes
\* from an earlier parse than the current one and the duration passed to
\* calculateDelta is the time elapsed between those two parses, also when
\* ticks in between failed to parse.
C19_DurationIsElapsed ==
    (iteration > 0 /\ built # {}) =>
        /\ previousTick <= iteration
        /\ elapsed # FZero
        /\ duration = elapsed

\* C20: with an iteration count N > 0 monitoringLoop returns at its N-th
\* ticker tick whatever the outcome of the parse of each tick, and never
\* processes a tick after it; with count 0 it returns on a signal only.
C20_ReturnsAfterCountTicks ==
    [][ /\ (flags.count > 0 /\ mpc = "loop" /\ iteration' = iteration + 1)
            => /\ iteration' <= flags.count
               /\ (iteration' = flags.count) => mpc' # "loop"
        /\ (flags.count = 0 /\ mpc = "loop" /\ mpc' = "returned")
            => iteration' = iteration ]_vars

\* C21: once a signal is buffered on sigChan while monitoringLoop runs, the
\* loop eventually returns (the select being fair to the signal case), and
\* after its return no parse is made and nothing is displayed.
C21_SignalEndsLoop ==
    /\ (sigChan > 0 /\ mpc = "loop") ~> (mpc = "returned")
    /\ [][mpc = "returned" =>
             UNCHANGED <<iteration, built, shown, merr, previousMounts>>]_vars

\* the names between the commas of an -ops value, white space trimmed
FilterNames(operations) ==
    LET n == Len(operations)
        Segment(i, j) ==
            /\ i = 1 \/ operations[i - 1] = ","
            /\ j = n \/ operations[j + 1] = ","
            /\ \A k \in i..j : operations[k] # ","
    IN  {TrimSpace(SubSeq(operations, i, j)) :
            <<i, j>> \in {ij \in (1..(n + 1)) \X (0..n) :
                             ij[2] >= ij[1] - 1 /\ Segment(ij[1], ij[2])}}

\* the operation names of the rows the display calls of a step printed
ShownOperations ==
    UNION {{r.Operation : r \in Range(shown[i].rows)} : i \in DOMAIN shown}

\* C22: the operations filter is the set of the trimmed names of the
\* comma-separated -ops value, and no filter at all for the empty value;
\* with a filter every delta the monitoring loop computes or displays is for
\* an operation of that set, and with no filter every operation of the
\* current snapshot that has a previous record gets its delta computed.
C22_OperationsFilter ==
    /\ [](/\ opsFilter.nil <=> (flags.operations = <<>>)
          /\ ~opsFilter.nil => (opsFilter.keys = FilterNames(flags.operations))
          /\ (iteration > 0 /\ ~opsFilter.nil) =>
                /\ \A s \in built : s.Operation \in FilterNames(flags.operations)
                /\ ShownOperations \subseteq FilterNames(flags.operations))
    /\ [][(/\ mpc = "loop"
           /\ mpc' \in {"loop", "returned"}
           /\ iteration' = iteration + 1
           /\ ~merr'
           /\ opsFilter.nil) =>
            \A i \in DOMAIN monitorMounts :
                LET cur == MapGet(previousMounts', monitorMounts[i])
                    prev == MapGet(previousMounts, monitorMounts[i])
                IN  (cur # Nil /\ prev # Nil) =>
                      \A name \in DOMAIN cur.Operations \cap DOMAIN prev.Operations :
                          \E s \in built' : s.Operation = name]_vars

\* a tick under the filter READ, GETATTR on a mount that also has WRITE
\* records: the READ delta is computed and displayed
C22_Witness ==
    /\ iteration > 0
    /\ opsFilter.keys = {<<"READ">>, <<"GETATTR">>}
    /\ PathNfs \in DOMAIN previousMounts
    /\ <<"WRITE">> \in DOMAIN previousMounts[PathNfs].Operations
    /\ \E s \in built : s.Operation = <<"READ">> /\ s.DeltaOps > 0
    /\ ShownOperations = {<<"READ">>}

\* C23: getMountsToMonitor, given a non-empty mount point, returns exactly
\* that mount point when it is a key of the initial snapshot and otherwise
\* returns an error to its caller; given an empty mount point it returns
\* every key of the snapshot, each once and in any order, or an error to its
\* caller when the snapshot has no mounts.  Returning an error is returning:
\* the process is still running when the call is over.
C23_GetMountsToMonitor ==
    mpc = "select" =>
        \A r \in getMountsToMonitor(flags.mountPoint, previousMounts) :
            /\ ~r.exit
            /\ IF flags.mountPoint # <<>>
               THEN r.list = IF flags.mountPoint \in DOMAIN previousMounts
                             THEN <<flags.mountPoint>> ELSE <<>>
               ELSE /\ Range(r.list) = DOMAIN previousMounts
                    /\ Len(r.list) = Cardinality(DOMAIN previousMounts)

(***************************************************************************)
(* The display routines as functions of the list they are handed: one call *)
(* of displayStatsSimple or displayStatsNfsiostat on a list that may hold  *)
(* nil entries and entries with DeltaOps == 0.                             *)
(***************************************************************************)
DisplayMount ==
    Parsed["fixed"][[readable |-> TRUE,
                     lines |-> <<DeviceNfs, AgeLine(3600), EventsLine(27),
                                 OpLine("READ", Read9),
                                 OpLine("WRITE", Write9)>>]].mounts[PathNfs]

StatsEntries ==
    { Nil,
      calculateDelta(OpRecord("WRITE", Write9), OpRecord("WRITE", Write9), Seconds(1000)),
      calculateDelta(OpRecord("READ", Read9), OpRecord("READ", Read9Later), Seconds(1000)),
      calculateDelta(OpRecord("GETATTR", Read9), OpRecord("GETATTR", Read9Later),
                     Seconds(2000)) }

StatsLists == UNION {[1..n -> StatsEntries] : n \in 0..MaxStats}

InitDisplay ==
    /\ statsArg \in StatsLists
    /\ printed = Nil
    /\ dpc = "display"
    /\ previousOp = Nil
    /\ currentOp = Nil
    /\ durationSec = FZero
    /\ delta = Nil
    /\ ParseIdle
    /\ MainIdle

DisplayStatsSimple ==
    /\ dpc = "display"
    /\ printed' = displayStatsSimple(DisplayMount, statsArg)
    /\ dpc' = "displayed"
    /\ UNCHANGED <<previousOp, currentOp, durationSec, delta, statsArg>>
    /\ UNCHANGED parseVars
    /\ UNCHANGED mainVars

DisplayStatsNfsiostat ==
    /\ dpc = "display"
    /\ \E previousMount \in {Nil, DisplayMount}, showAttr \in BOOLEAN :
         printed' = displayStatsNfsiostat(DisplayMount, statsArg, previousMount, showAttr)
    /\ dpc' = "displayed"
    /\ UNCHANGED <<previousOp, currentOp, durationSec, delta, statsArg>>
    /\ UNCHANGED parseVars
    /\ UNCHANGED mainVars

NextDisplay == DisplayStatsSimple \/ DisplayStatsNfsiostat

SpecDisplay == InitDisplay /\ [][NextDisplay]_vars

\* the positions of a list whose entry gets a row
RowPositions(list) == {i \in DOMAIN list : list[i] # Nil /\ list[i].DeltaOps # 0}

\* rows is list restricted to the positions P, in the order of the list
RowsAre(rows, list, P) ==
    /\ Len(rows) = Cardinality(P)
    /\ \E f \in [DOMAIN rows -> P] :
          /\ \A k \in DOMAIN rows : rows[k] = list[f[k]]
          /\ \A k, l \in DOMAIN rows : k < l => f[k] < f[l]

\* C24: neither display routine prints a row for an entry that is nil or has
\* DeltaOps == 0, every other entry is printed once and in the order of the
\* list, and displayStatsSimple prints nothing at all, header included,
\* when the list is empty or nil.
C24_DisplayRows ==
    dpc = "displayed" =>
        /\ RowsAre(printed.rows, statsArg, RowPositions(statsArg))
        /\ (printed.routine = "simple" /\ statsArg = <<>>)
              => (~printed.header /\ printed.rows = <<>>)

\* a list of a nil entry, an entry with DeltaOps == 0 and two active ones
\* was displayed by the simple routine: two rows, in the order of the list
C24_Witness ==
    /\ dpc = "displayed"
    /\ printed.routine = "simple"
    /\ Len(statsArg) = 4
    /\ statsArg[1] = Nil
    /\ statsArg[2] # Nil /\ statsArg[2].DeltaOps > 0
    /\ statsArg[3] # Nil /\ statsArg[3].DeltaOps = 0
    /\ statsArg[4] # Nil /\ statsArg[4].DeltaOps > 0
    /\ printed.rows = <<statsArg[2], statsArg[4]>>

\* the simple routine was handed an empty list and printed nothing
C24_WitnessEmpty ==
    /\ dpc = "displayed"
    /\ printed.routine = "simple"
    /\ statsArg = <<>>
    /\ ~printed.header

\* the monitored mounts that are in both snapshots of a tick
InBothSnapshots(prev, cur) ==
    {mp \in Range(monitorMounts) : mp \in DOMAIN prev /\ mp \in DOMAIN cur}

\* the deltas with DeltaOps > 0 of the operations of a mount that pass the
\* filter and have a record in both snapshots
ActiveDeltas(prevMount, curMount, dur) ==
    LET names == {n \in DOMAIN curMount.Operations \cap DOMAIN prevMount.Operations :
                     opsFilter.nil \/ n \in opsFilter.keys}
        all == {calculateDelta(prevMount.Operations[n], curMount.Operations[n], dur) :
                   n \in names}
    IN  {d \in all : d # Nil /\ d.DeltaOps > 0}

\* the display calls a step made for a mount
DisplayCalls(out, mp) ==
    {i \in DOMAIN out : out[i].routine \in {"simple", "nfsiostat"} /\ out[i].mount = mp}

\* what C25 asks of the tick that parsed cur while prev was retained
DisplayedAsFiltered(prev, cur, dur, out) ==
    \A mp \in InBothSnapshots(prev, cur) :
        LET expected == ActiveDeltas(prev[mp], cur[mp], dur)
            calls == DisplayCalls(out, mp)
        IN  /\ \A i \in calls :
                  /\ Range(out[i].rows) = expected
                  /\ Len(out[i].rows) = Cardinality(expected)
                  /\ out[i].routine = IF flags.nfsiostatMode THEN "nfsiostat"
                                                             ELSE "simple"
            /\ Cardinality(calls) <= 1
            /\ IF flags.nfsiostatMode THEN calls # {}
               ELSE (calls # {}) <=> (expected # {})

\* C25: on each tick whose parse succeeds and for each monitored mount that
\* is in both snapshots, the list handed to the display holds exactly the
\* deltas of the operations that pass the filter, are in both snapshots and
\* have DeltaOps > 0; in simple mode the mount is displayed only when that
\* list is not empty, in nfsiostat mode on every such tick.
C25_DisplayedDeltas ==
    [][(/\ mpc = "loop"
        /\ iteration' = iteration + 1
        /\ currentMounts' # EmptyMap) =>
           DisplayedAsFiltered(previousMounts, currentMounts', duration', shown')]_vars

\* C26: every mount record of a map that parseMountstats returns without
\* error has a non-nil Events value and a non-nil Operations map, whatever
\* the lines of the stream are, so that displayStatsNfsiostat can read
\* mount.Events for its attribute cache block.
C26_EventsNeverNil ==
    (ppc = "returned" /\ perr = "none") =>
        \A mp \in DOMAIN mounts :
            /\ mounts[mp].Events # NilSeq
            /\ mounts[mp].Operations =
                  [n \in DOMAIN mounts[mp].Operations |-> mounts[mp].Operations[n]]

\* the device lines that open no mount: too few tokens, or not an NFS mount
RejectedDeviceLines == {MalformedDeviceLine, NonNfsDeviceLine}

IsDeviceLine(text) == HasPrefix(TrimSpace(text), <<"device">>)

\* the nearest device line before the end of the lines read was rejected
AfterRejectedDeviceLine(lines) ==
    \E i \in DOMAIN lines :
        /\ lines[i] \in RejectedDeviceLines
        /\ \A j \in (i + 1)..Len(lines) : ~IsDeviceLine(lines[j])

\* C27: an age, events, bytes or operation line is applied only to the mount
\* opened by the nearest device line before it: when that device line was
\* not accepted (too few tokens, or not NFS), the line modifies no record of
\* the map, the records of the mounts opened earlier included.
C27_StatLinesAfterRejectedDevice ==
    [][(/\ ppc = "scan"
        /\ Len(stream') = Len(stream) + 1
        /\ ~IsDeviceLine(stream'[Len(stream')])
        /\ AfterRejectedDeviceLine(stream)) => mounts' = mounts]_vars

\* C28: on a tick whose parse succeeds the loop never dereferences the
\* record of a monitored mount that is missing from the current snapshot:
\* with every combination of flags, --clear in simple mode included, such a
\* mount gets no display on that tick and nothing crashes on it.
C28_MissingMountSkipped ==
    (iteration > 0 /\ ~merr) =>
        \A i \in DOMAIN shown :
            shown[i].mount \notin DOMAIN currentMounts =>
                /\ ~shown[i].panicked
                /\ shown[i].routine \notin {"simple", "nfsiostat"}

\* C29: a tick whose parse fails leaves the retained previous snapshot as it
\* was, and a tick whose parse succeeds replaces it with exactly the
\* snapshot parsed on that tick, whatever was skipped or displayed.
C29_SnapshotRetained ==
    [][(mpc = "loop" /\ iteration' = iteration + 1) =>
           IF merr' THEN previousMounts' = previousMounts
                    ELSE previousMounts' = currentMounts']_vars

\* C30: when monitoringLoop starts, the list of monitored mounts is not
\* empty and each of its members is a key of the initial snapshot, so the
\* simple-mode header of printInitialSummary finds the record of the first
\* monitored mount; the list never changes afterwards, so a mount that
\* appears after startup is never monitored.
C30_MonitoredMounts ==
    /\ [](/\ mpc \in {"summary", "ticker", "loop", "returned"}
                => monitorMounts # <<>>
          /\ (mpc \in {"summary", "ticker"} \/ (mpc = "loop" /\ iteration = 0))
                => Range(monitorMounts) \subseteq DOMAIN previousMounts
          /\ iteration = 0
                => \A i \in DOMAIN shown :
                       shown[i].routine = "header" => ~shown[i].panicked)
    /\ [][(mpc \in {"summary", "ticker", "loop"})
             => monitorMounts' = monitorMounts]_vars

\* /mnt/data was mounted after startup: it is in the snapshot of the tick,
\* not in the list, and the tick displayed /mnt/nfs only
C30_Witness ==
    /\ mpc = "loop"
    /\ iteration > 0
    /\ flags.mountPoint = <<>>
    /\ monitorMounts = <<PathNfs>>
    /\ DOMAIN currentMounts = {PathNfs, PathData}
    /\ shown # <<>>
    /\ \A i \in DOMAIN shown : shown[i].mount = PathNfs

====
